---- MODULE Spec2Model ----
(***************************************************************************)
(* A model of firedrake's ufl_expr.py: the Argument class (reconstruct),   *)
(* the Action class (assemble with Dirichlet boundary conditions) and the  *)
(* free functions adjoint and action.                                      *)
(*                                                                         *)
(* Functions (the coefficient x, a caller's tensor, a freshly built        *)
(* Function) are objects on a small heap of value vectors, so that         *)
(* "out is tensor" and "tensor is x" alias as they do in Python.           *)
(***************************************************************************)
EXTENDS Integers, Sequences, FiniteSets, TLC

\* Number of degrees of freedom of the function space.
NDofs == 3
\* Longest collection of boundary conditions handed to an Action.
MaxBcs == 2
\* In-place calls (tensor is x) are made only while x's values are at most this.
MaxVal == 2
\* Number of Argument objects a chain of reconstruct calls may construct.
MaxArgs == 2
\* Number of Argument objects a chain of adjoint calls may construct.
MaxPairArgs == 4

VARIABLES x, obj, made, last, prev, g, form, nextId, globalcount, lastR

vars == <<x, obj, made, last, prev, g, form, nextId, globalcount, lastR>>
actionVars == <<x, obj, made, last, prev>>
argVars == <<g, form, nextId, globalcount, lastR>>

(***************************************************************************)
(* Part 1: Action                                                          *)
(***************************************************************************)

Dofs == 1..NDofs

\* Python's None, where the value it stands in for is a string.
None == "None"

\* The bilinear forms a: a symmetric mass-like matrix and a one-sided one.
Forms == {"mass", "upwind"}

Matrix(a) ==
    [i \in Dofs |-> [j \in Dofs |->
        IF a = "mass"
        THEN (IF i = j THEN 2 ELSE IF i - j \in {-1, 1} THEN 1 ELSE 0)
        ELSE (IF i = j THEN 1 ELSE IF j = i + 1 THEN 1 ELSE 0)]]

RECURSIVE Dot(_, _, _)
Dot(row, v, n) == IF n = 0 THEN 0 ELSE row[n] * v[n] + Dot(row, v, n - 1)

\* solving.assemble(ufl.action(a, f)) as values: the matrix of a applied to f.
AssembledAction(a, v) == [i \in Dofs |-> Dot(Matrix(a)[i], v, NDofs)]

Zeros == [i \in Dofs |-> 0]

\* bc.node_set of the DirichletBCs the mesh offers: either end, and two
\* markers that overlap each other and the ends.
NodeSets == {{1}, {NDofs}, {1, 2}, 2..NDofs}

\* The bcs argument: None, or an ordered collection of boundary conditions.
BcsNone == [none |-> TRUE, list |-> <<>>]
BcsOf(l) == [none |-> FALSE, list |-> l]
BcLists == UNION {[1..n -> NodeSets] : n \in 0..MaxBcs}
BcsArgs == {BcsNone} \cup {BcsOf(l) : l \in BcLists}

\* The heap of Function objects a call sees: the coefficient x, the caller's
\* tensor t, and the Function the call itself may create.
Refs == {"x", "t", "new"}

\* Function.assign(expr): every value of dst is overwritten.
Assign(h, dst, vals) == [h EXCEPT ![dst] = vals]

\* Function.assign(expr, subset=S): only the values at S are overwritten.
AssignSubset(h, dst, vals, S) ==
    [h EXCEPT ![dst] = [i \in Dofs |-> IF i \in S THEN vals[i] ELSE h[dst][i]]]

\* core_types.Function(f): a new Function holding a copy of f's values.
FunctionCopy(h, src) == [h EXCEPT !["new"] = h[src]]

\* Mutant of ZeroPass: the zeroing loop left out.
ZeroPassLeftOut(h, out, bcs) == h

\* for bc in self._bcs: out.assign(0, subset=bc.node_set)
RECURSIVE ZeroPass(_, _, _)
ZeroPass(h, out, bcs) ==
    IF bcs = <<>> THEN h
    ELSE ZeroPass(AssignSubset(h, out, Zeros, Head(bcs)), out, Tail(bcs))

\* Mutant of RestorePass: only the first boundary condition is restored.
RestorePassFirstOnly(h, out, bcs) ==
    IF bcs = <<>> THEN h ELSE AssignSubset(h, out, h["x"], Head(bcs))

\* for bc in self._bcs: out.assign(self._x, subset=bc.node_set)
\* self._x is read when each assignment runs.
RECURSIVE RestorePass(_, _, _)
RestorePass(h, out, bcs) ==
    IF bcs = <<>> THEN h
    ELSE RestorePass(AssignSubset(h, out, h["x"], Head(bcs)), out, Tail(bcs))

\* The outcome of a call: whether it raised, the object returned, the heap.
Raised(h) == [raised |-> TRUE, ret |-> None, heap |-> h]
Returned(r, h) == [raised |-> FALSE, ret |-> r, heap |-> h]

\* solving.assemble(ufl.action(a, x), tensor=tensor): the result is placed in
\* tensor when one is given, in a new Function otherwise.
SolvingAssemble(a, tensor, h, fail) ==
    IF fail THEN Raised(h)
    ELSE LET out == IF tensor = None THEN "new" ELSE tensor
         IN Returned(out, Assign(h, out, AssembledAction(a, h["x"])))

\* Action.__init__
ActionInit(a, bcs) == [kind |-> "Action", a |-> a, bcs |-> bcs]

\* Mutant of action: "if not bcs" in place of "if bcs is None".
actionIfNotBcs(a, bcs) ==
    IF bcs.none \/ bcs.list = <<>> THEN [kind |-> "Form", a |-> a, bcs |-> BcsNone]
    ELSE ActionInit(a, bcs)

\* action(form, coefficient, bcs)
action(a, bcs) ==
    IF bcs.none THEN [kind |-> "Form", a |-> a, bcs |-> BcsNone]
    ELSE ActionInit(a, bcs)

\* Mutant of Action.assemble: without a tensor it works on x itself, no copy.
ActionAssembleNoCopy(self, tensor, h, fail) ==
    IF self.bcs.none THEN SolvingAssemble(self.a, tensor, h, fail)
    ELSE LET out == IF tensor = None THEN "x" ELSE tensor
             h1 == Assign(h, out, h["x"])
             h2 == ZeroPass(h1, out, self.bcs.list)
         IN IF fail THEN Raised(h2)
            ELSE LET h3 == Assign(h2, out, AssembledAction(self.a, h2[out]))
                     h4 == RestorePass(h3, out, self.bcs.list)
                 IN Returned(out, h4)

\* Mutant of Action.assemble: the restore pass runs also when assembly fails.
ActionAssembleRestoreOnError(self, tensor, h, fail) ==
    IF self.bcs.none THEN SolvingAssemble(self.a, tensor, h, fail)
    ELSE LET out == IF tensor = None THEN "new" ELSE tensor
             h1 == IF tensor = None THEN FunctionCopy(h, "x")
                   ELSE Assign(h, out, h["x"])
             h2 == ZeroPass(h1, out, self.bcs.list)
         IN IF fail THEN Raised(RestorePass(h2, out, self.bcs.list))
            ELSE LET h3 == Assign(h2, out, AssembledAction(self.a, h2[out]))
                     h4 == RestorePass(h3, out, self.bcs.list)
                 IN Returned(out, h4)

\* Action.assemble(tensor)
ActionAssemble(self, tensor, h, fail) ==
    IF self.bcs.none THEN SolvingAssemble(self.a, tensor, h, fail)
    ELSE LET out == IF tensor = None THEN "new" ELSE tensor
             h1 == IF tensor = None THEN FunctionCopy(h, "x")
                   ELSE Assign(h, out, h["x"])
             h2 == ZeroPass(h1, out, self.bcs.list)
         IN IF fail THEN Raised(h2)
            ELSE LET h3 == Assign(h2, out, AssembledAction(self.a, h2[out]))
                     h4 == RestorePass(h3, out, self.bcs.list)
                 IN Returned(out, h4)

\* What the caller assembles: an Action, or the engine's native form.
Assemble(o, tensor, h, fail) ==
    IF o.kind = "Action" THEN ActionAssemble(o, tensor, h, fail)
    ELSE SolvingAssemble(o.a, tensor, h, fail)

\* Values the coefficient may hold at the start, and a caller's tensor before
\* the call.
InitVals == {1, 2}
TensorContents == {Zeros, [i \in Dofs |-> 7], [i \in Dofs |-> i + 3]}

NoCall ==
    [called |-> FALSE, kind |-> "Form", a |-> "mass", bcs |-> BcsNone,
     tensor |-> None, xpre |-> Zeros, tpre |-> Zeros, raised |-> FALSE,
     ret |-> None, val |-> Zeros, tpost |-> Zeros]

CallRecord(o, tensor, h, r) ==
    [called |-> TRUE, kind |-> o.kind, a |-> o.a, bcs |-> o.bcs,
     tensor |-> tensor, xpre |-> h["x"], tpre |-> h["t"], raised |-> r.raised,
     ret |-> r.ret,
     val |-> IF r.raised THEN Zeros ELSE r.heap[r.ret],
     tpost |-> r.heap["t"]]

RECURSIVE MaxOf(_, _)
MaxOf(v, n) ==
    IF n = 0 THEN 0
    ELSE LET m == MaxOf(v, n - 1) IN IF v[n] > m THEN v[n] ELSE m

\* One call obj.assemble(tensor), or solving.assemble(obj, tensor=tensor) for a
\* native form, on the current heap.
Call(tensor, tpre, fail) ==
    LET h == [r \in Refs |-> IF r = "x" THEN x ELSE IF r = "t" THEN tpre ELSE Zeros]
        r == Assemble(obj, tensor, h, fail)
    IN /\ x' = r.heap["x"]
       /\ last' = CallRecord(obj, tensor, h, r)

\* A call without a tensor.
AssembleNew ==
    /\ \E fail \in BOOLEAN : Call(None, Zeros, fail)
    /\ UNCHANGED <<obj, made, prev, argVars>>

\* A call with a caller's tensor that is not x.
AssembleInto ==
    /\ \E tpre \in TensorContents, fail \in BOOLEAN : Call("t", tpre, fail)
    /\ UNCHANGED <<obj, made, prev, argVars>>

\* A call with x itself as the tensor.
AssembleInPlace ==
    /\ MaxOf(x, NDofs) <= MaxVal
    /\ \E fail \in BOOLEAN : Call("x", Zeros, fail)
    /\ UNCHANGED <<obj, made, prev, argVars>>

\* A call without a tensor, the call before it remembered.
AssembleAgain ==
    /\ \E fail \in BOOLEAN : Call(None, Zeros, fail)
    /\ prev' = last
    /\ UNCHANGED <<obj, made, argVars>>

\* The orders in which the same boundary conditions can be supplied.
Reorderings(l) ==
    {[i \in 1..Len(l) |-> l[p[i]]] : p \in Permutations(1..Len(l))}

\* action(a, x, bcs) again, the same boundary conditions in another order.
Rebuild ==
    /\ ~obj.bcs.none
    /\ \E l \in Reorderings(obj.bcs.list) :
           /\ l # obj.bcs.list
           /\ obj' = action(obj.a, BcsOf(l))
           /\ made' = [by |-> "action", bcs |-> BcsOf(l)]
    /\ UNCHANGED <<x, last, prev, argVars>>

ArgInitDefault ==
    /\ g = 0
    /\ form = 0
    /\ nextId = 0
    /\ globalcount = 0
    /\ lastR = 0

InitAction ==
    /\ x \in [Dofs -> InitVals]
    /\ \E a \in Forms :
           \/ \E bcs \in BcsArgs :
                  /\ obj = action(a, bcs)
                  /\ made = [by |-> "action", bcs |-> bcs]
           \/ /\ obj = ActionInit(a, BcsNone)
              /\ made = [by |-> "Action", bcs |-> BcsNone]
    /\ last = NoCall
    /\ prev = NoCall
    /\ ArgInitDefault

NextAction == AssembleNew \/ AssembleInto \/ AssembleInPlace

SpecAction == InitAction /\ [][NextAction]_vars

NextRepeat == AssembleAgain \/ Rebuild

SpecRepeat == InitAction /\ [][NextRepeat]_vars

(***************************************************************************)
(* Part 2: Argument and adjoint                                            *)
(*                                                                         *)
(* Elements and function spaces are objects: obj is the object's identity  *)
(* (Python's "is"), desc what Python's == compares.                        *)
(***************************************************************************)

\* The finite elements: two equal P1 objects, a P2 and a vector-valued P1.
Elements ==
    {[obj |-> 1, desc |-> "P1"], [obj |-> 2, desc |-> "P1"],
     [obj |-> 3, desc |-> "P2"], [obj |-> 4, desc |-> "VP1"]}

\* None passed as element, and an object that is no FiniteElementBase.
NoneElement == [obj |-> 0, desc |-> "None"]
NotAnElement == [obj |-> 5, desc |-> "str"]
ElementArgs == Elements \cup {NoneElement, NotAnElement}

\* isinstance(element, FiniteElementBase)
IsElement(e) == e \in Elements

\* element.value_shape()
ValueShape(e) == IF e.desc = "VP1" THEN <<2>> ELSE <<>>

\* The function spaces: two equal spaces V, and the spaces W and X.
FunctionSpaces ==
    {[obj |-> 1, desc |-> "V"], [obj |-> 2, desc |-> "V"],
     [obj |-> 3, desc |-> "W"], [obj |-> 4, desc |-> "X"]}
NoneSpace == [obj |-> 0, desc |-> "None"]
SpaceArgs == {V \in FunctionSpaces : V.desc # "X"} \cup {NoneSpace}

\* function_space.ufl_element()
UflElement(V) ==
    CHOOSE e \in Elements :
        /\ e.obj = V.obj
        /\ e.desc = (IF V.desc = "V" THEN "P1" ELSE IF V.desc = "W" THEN "P2" ELSE "VP1")

\* The count argument: None, an int, or something that is no int.
NoneCount == [tag |-> "None", v |-> 0]
IntCount(n) == [tag |-> "int", v |-> n]
NotAnInt == [tag |-> "str", v |-> 0]
CountArgs == {NoneCount, NotAnInt} \cup {IntCount(n) : n \in {-2, 1}}

\* ufl's Counted.__init__ followed by Argument.__init__: a missing count is the
\* class-wide counter, which then moves past every count in use.
ArgumentInit(element, function_space, count, id, gc) ==
    LET c == IF count.tag = "None" THEN gc ELSE count.v
    IN [arg |-> [id |-> id, element |-> element, fs |-> function_space, count |-> c],
        globalcount |-> IF c >= gc THEN c + 1 ELSE gc]

\* TestFunction(function_space) and TrialFunction(function_space)
TestFunction(V, id, gc) == ArgumentInit(UflElement(V), V, IntCount(-2), id, gc)
TrialFunction(V, id, gc) == ArgumentInit(UflElement(V), V, IntCount(-1), id, gc)

NoArgument == [id |-> 0, element |-> NoneElement, fs |-> NoneSpace, count |-> 0]

\* The outcome of reconstruct: "self", "new" or "error" (ufl_assert raised),
\* the object returned, and the counters after the call.
ReconstructOutcome(status, ret, id, gc) ==
    [status |-> status, ret |-> ret, nextId |-> id, globalcount |-> gc]

\* Mutant of reconstruct: an element that compares equal is not replaced by
\* the Argument's own.
ReconstructKeepsEqualElement(self, element, function_space, count, id, gc) ==
    LET fs1 == IF function_space = NoneSpace \/ function_space.desc = self.fs.desc
               THEN self.fs ELSE function_space
        el1 == IF element = NoneElement THEN self.element ELSE element
        c1 == IF count.tag = "None" \/ (count.tag = "int" /\ count.v = self.count)
              THEN IntCount(self.count) ELSE count
    IN IF c1 = IntCount(self.count) /\ el1.obj = self.element.obj
       THEN ReconstructOutcome("self", self, id, gc)
       ELSE IF ~IsElement(el1) THEN ReconstructOutcome("error", NoArgument, id, gc)
       ELSE IF c1.tag # "int" THEN ReconstructOutcome("error", NoArgument, id, gc)
       ELSE IF ValueShape(el1) # ValueShape(self.element)
       THEN ReconstructOutcome("error", NoArgument, id, gc)
       ELSE LET n == ArgumentInit(el1, fs1, c1, id, gc)
            IN ReconstructOutcome("new", n.arg, id + 1, n.globalcount)

\* Mutant of reconstruct: the value shapes are not compared.
ReconstructNoShapeCheck(self, element, function_space, count, id, gc) ==
    LET fs1 == IF function_space = NoneSpace \/ function_space.desc = self.fs.desc
               THEN self.fs ELSE function_space
        el1 == IF element = NoneElement \/ element.desc = self.element.desc
               THEN self.element ELSE element
        c1 == IF count.tag = "None" \/ (count.tag = "int" /\ count.v = self.count)
              THEN IntCount(self.count) ELSE count
    IN IF c1 = IntCount(self.count) /\ el1.obj = self.element.obj
       THEN ReconstructOutcome("self", self, id, gc)
       ELSE IF ~IsElement(el1) THEN ReconstructOutcome("error", NoArgument, id, gc)
       ELSE IF c1.tag # "int" THEN ReconstructOutcome("error", NoArgument, id, gc)
       ELSE LET n == ArgumentInit(el1, fs1, c1, id, gc)
            IN ReconstructOutcome("new", n.arg, id + 1, n.globalcount)

\* Argument.reconstruct(element, function_space, count)
Reconstruct(self, element, function_space, count, id, gc) ==
    LET fs1 == IF function_space = NoneSpace \/ function_space.desc = self.fs.desc
               THEN self.fs ELSE function_space
        el1 == IF element = NoneElement \/ element.desc = self.element.desc
               THEN self.element ELSE element
        c1 == IF count.tag = "None" \/ (count.tag = "int" /\ count.v = self.count)
              THEN IntCount(self.count) ELSE count
    IN IF c1 = IntCount(self.count) /\ el1.obj = self.element.obj
       THEN ReconstructOutcome("self", self, id, gc)
       ELSE IF ~IsElement(el1) THEN ReconstructOutcome("error", NoArgument, id, gc)
       ELSE IF c1.tag # "int" THEN ReconstructOutcome("error", NoArgument, id, gc)
       ELSE IF ValueShape(el1) # ValueShape(self.element)
       THEN ReconstructOutcome("error", NoArgument, id, gc)
       ELSE LET n == ArgumentInit(el1, fs1, c1, id, gc)
            IN ReconstructOutcome("new", n.arg, id + 1, n.globalcount)

\* reordered_arguments=None
NoPair == <<NoArgument, NoArgument>>

\* ufl.adjoint(form, reordered_arguments): the engine refuses a pair that is not
\* in count order or whose elements do not match, and otherwise returns the
\* form over the pair.
UflAdjoint(f, pair) ==
    IF /\ pair[1].count < pair[2].count
       /\ pair[1].element.desc = f[2].element.desc
       /\ pair[2].element.desc = f[1].element.desc
    THEN [raised |-> FALSE, form |-> pair]
    ELSE [raised |-> TRUE, form |-> f]

AdjointOutcome(pair, id, gc) == [pair |-> pair, nextId |-> id, globalcount |-> gc]

\* Mutant of adjoint: the new Arguments are built in the order (v, u).
AdjointPairUnswapped(f, reordered, id, gc) ==
    IF reordered = NoPair
    THEN LET v == f[1]
             u == f[2]
             n1 == ArgumentInit(v.element, v.fs, NoneCount, id, gc)
             n2 == ArgumentInit(u.element, u.fs, NoneCount, id + 1, n1.globalcount)
         IN AdjointOutcome(<<n1.arg, n2.arg>>, id + 2, n2.globalcount)
    ELSE AdjointOutcome(reordered, id, gc)

\* adjoint(form, reordered_arguments), up to the call of ufl.adjoint: the pair
\* handed to the engine. extract_arguments gives the form's arguments in count
\* order, which is how the form is kept.
Adjoint(f, reordered, id, gc) ==
    IF reordered = NoPair
    THEN LET v == f[1]
             u == f[2]
             n1 == ArgumentInit(u.element, u.fs, NoneCount, id, gc)
             n2 == ArgumentInit(v.element, v.fs, NoneCount, id + 1, n1.globalcount)
         IN AdjointOutcome(<<n1.arg, n2.arg>>, id + 2, n2.globalcount)
    ELSE AdjointOutcome(reordered, id, gc)

NoOp ==
    [op |-> "none", self |-> NoArgument, element |-> NoneElement,
     fs |-> NoneSpace, count |-> NoneCount, status |-> "none",
     ret |-> NoArgument, other |-> NoArgument, pair |-> NoPair,
     reordered |-> NoPair, idBefore |-> 0, gcBefore |-> 0]

\* One call g.reconstruct(element, function_space, count) on the Argument the
\* caller holds; the caller holds the result from then on.
ReconstructCall ==
    /\ nextId <= 1 + MaxArgs
    /\ \E element \in ElementArgs, fs \in SpaceArgs, count \in CountArgs :
           LET self == g
               r == Reconstruct(self, element, fs, count, nextId, globalcount)
           IN /\ g' = IF r.status = "error" THEN g ELSE r.ret
              /\ nextId' = r.nextId
              /\ globalcount' = r.globalcount
              /\ lastR' = [NoOp EXCEPT !.op = "reconstruct", !.self = self,
                                       !.element = element, !.fs = fs,
                                       !.count = count, !.status = r.status,
                                       !.ret = r.ret,
                                       !.idBefore = nextId,
                                       !.gcBefore = globalcount]
    /\ UNCHANGED <<form, actionVars>>

\* One call adjoint(form, reordered_arguments); the caller holds the adjoint
\* form from then on, when the engine returns one.
AdjointCall ==
    /\ nextId + 1 <= 2 + MaxPairArgs
    /\ \E reordered \in {NoPair} \cup ({form[1], form[2]} \X {form[1], form[2]}) :
           LET r == Adjoint(form, reordered, nextId, globalcount)
               e == UflAdjoint(form, r.pair)
           IN /\ form' = e.form
              /\ nextId' = r.nextId
              /\ globalcount' = r.globalcount
              /\ lastR' = [NoOp EXCEPT !.op = "adjoint", !.self = form[1],
                                       !.other = form[2],
                                       !.status = IF e.raised THEN "error" ELSE "form",
                                       !.pair = r.pair, !.reordered = reordered,
                                       !.idBefore = nextId,
                                       !.gcBefore = globalcount]
    /\ UNCHANGED <<g, actionVars>>

ActionInitDefault ==
    /\ x = Zeros
    /\ obj = ActionInit("mass", BcsNone)
    /\ made = [by |-> "Action", bcs |-> BcsNone]
    /\ last = NoCall
    /\ prev = NoCall

\* An Argument the caller holds: a test or trial function, or an Argument
\* built with a count of the caller's choosing or none.
InitArgument ==
    /\ \E V \in FunctionSpaces, count \in {NoneCount, IntCount(-2), IntCount(-1), IntCount(1)} :
           LET a1 == IF count = IntCount(-2) THEN TestFunction(V, 1, 0)
                     ELSE IF count = IntCount(-1) THEN TrialFunction(V, 1, 0)
                     ELSE ArgumentInit(UflElement(V), V, count, 1, 0)
           IN /\ g = a1.arg
              /\ nextId = 2
              /\ globalcount = a1.globalcount
    /\ form = NoPair
    /\ lastR = NoOp
    /\ ActionInitDefault

NextArgument == ReconstructCall

SpecArgument == InitArgument /\ [][NextArgument]_vars

\* A bilinear form over a test and a trial function, or over two Arguments
\* built with counts of the caller's choosing.
InitAdjoint ==
    /\ \E V \in FunctionSpaces, U \in FunctionSpaces, canonical \in BOOLEAN :
           LET a1 == IF canonical THEN TestFunction(V, 1, 0)
                     ELSE ArgumentInit(UflElement(V), V, IntCount(0), 1, 0)
               a2 == IF canonical THEN TrialFunction(U, 2, a1.globalcount)
                     ELSE ArgumentInit(UflElement(U), U, IntCount(3), 2, a1.globalcount)
           IN /\ form = <<a1.arg, a2.arg>>
              /\ nextId = 3
              /\ globalcount = a2.globalcount
    /\ g = NoArgument
    /\ lastR = NoOp
    /\ ActionInitDefault

NextAdjoint == AdjointCall

SpecAdjoint == InitAdjoint /\ [][NextAdjoint]_vars

(***************************************************************************)
(* Properties of Argument and adjoint                                      *)
(***************************************************************************)

\* A completed call g.reconstruct(...), and which of its arguments leave the
\* field as it is: omitted, or comparing equal to the current value.
ReconstructDone == lastR.op = "reconstruct"
SameElement == lastR.element = NoneElement \/ lastR.element.desc = lastR.self.element.desc
SameSpace == lastR.fs = NoneSpace \/ lastR.fs.desc = lastR.self.fs.desc
SameCount ==
    lastR.count.tag = "None"
        \/ (lastR.count.tag = "int" /\ lastR.count.v = lastR.self.count)

\* C6: reconstruct returns the merged fields: with only a function space W given
\* that does not compare equal to g's, the result is an Argument over W with g's
\* element and count; g itself is returned only when none of element, function
\* space and count differ from g's.
C6_ReconstructMerges ==
    /\ (ReconstructDone /\ ~SameSpace
            /\ lastR.element = NoneElement /\ lastR.count = NoneCount)
           => /\ lastR.status # "error"
              /\ lastR.ret.fs = lastR.fs
              /\ lastR.ret.element = lastR.self.element
              /\ lastR.ret.count = lastR.self.count
    /\ (ReconstructDone /\ lastR.status = "self")
           => (SameElement /\ SameSpace /\ SameCount)

\* C7: reconstruct with every argument omitted or comparing equal to g's current
\* value returns g itself and constructs no Argument, also when g is the result
\* of earlier reconstruct calls.
C7_NoChangeReturnsSelf ==
    (ReconstructDone /\ SameElement /\ SameSpace /\ SameCount)
        => /\ lastR.status = "self"
           /\ lastR.ret = lastR.self
           /\ g = lastR.self
           /\ nextId = lastR.idBefore

\* C7 witness: g was itself built by reconstruct, and element, function space
\* and count are given as equal values that are other objects than g's.
C7_Witness ==
    /\ ReconstructDone /\ lastR.self.id > 1
    /\ lastR.element # NoneElement /\ lastR.element.desc = lastR.self.element.desc
    /\ lastR.element.obj # lastR.self.element.obj
    /\ lastR.fs # NoneSpace /\ lastR.fs.desc = lastR.self.fs.desc
    /\ lastR.fs.obj # lastR.self.fs.obj
    /\ lastR.count = IntCount(lastR.self.count)
    /\ lastR.status = "self"

\* The element given has another value shape than g's element.
OtherShape ==
    /\ ReconstructDone
    /\ IsElement(lastR.element)
    /\ ValueShape(lastR.element) # ValueShape(lastR.self.element)

\* C8: reconstruct with an element of another value shape fails validation and
\* returns no Argument, whatever function space and count come with it; g stays
\* as it was and nothing is constructed.
C8_ShapeChangeFails ==
    OtherShape
        => /\ lastR.status = "error"
           /\ lastR.ret = NoArgument
           /\ g = lastR.self
           /\ nextId = lastR.idBefore

\* C8 witness: a refused shape change that came with another function space and
\* another count, both valid.
C8_Witness ==
    /\ OtherShape /\ ~SameSpace /\ ~SameCount /\ lastR.count.tag = "int"
    /\ lastR.status = "error"

\* A completed call adjoint(form) without reordered_arguments.
AdjointDone == lastR.op = "adjoint" /\ lastR.reordered = NoPair

\* C9: adjoint(form) without reordered_arguments hands the engine two newly
\* constructed Arguments with freshly numbered counts (not -2 or -1, not the
\* originals'): the first has u's element and function space, the second v's,
\* and the first's count is the lower. No original is reused and every call
\* mints a new pair.
C9_AdjointMintsPair ==
    AdjointDone
        => LET v == lastR.self
               u == lastR.other
               p == lastR.pair
           IN /\ p[1].id >= lastR.idBefore /\ p[2].id >= lastR.idBefore
              /\ p[1].id # p[2].id
              /\ nextId > p[1].id /\ nextId > p[2].id
              /\ p[1].count >= lastR.gcBefore /\ p[2].count >= lastR.gcBefore
              /\ {p[1].count, p[2].count} \cap {-2, -1, v.count, u.count} = {}
              /\ p[1].element = u.element /\ p[1].fs = u.fs
              /\ p[2].element = v.element /\ p[2].fs = v.fs
              /\ p[1].count < p[2].count

\* C9 witness: adjoint applied to a form that adjoint itself returned, with
\* test and trial spaces that differ.
C9_Witness ==
    /\ AdjointDone
    /\ lastR.self.id >= 3
    /\ lastR.self.fs.desc # lastR.other.fs.desc
    /\ lastR.status = "form"

(***************************************************************************)
(* Properties of Action                                                    *)
(***************************************************************************)

\* The degrees of freedom some boundary condition of the collection constrains.
Constrained(l) == UNION {l[k] : k \in 1..Len(l)}

\* v with every constrained degree of freedom set to 0.
ZeroedAt(v, l) == [i \in Dofs |-> IF i \in Constrained(l) THEN 0 ELSE v[i]]

\* The result the boundary-condition-aware action is to have: v's values at the
\* constrained degrees of freedom, the action of a on the zeroed v elsewhere.
BcAction(a, v, l) ==
    [i \in Dofs |-> IF i \in Constrained(l) THEN v[i]
                    ELSE AssembledAction(a, ZeroedAt(v, l))[i]]

\* A completed Action.assemble with a collection of boundary conditions.
BcCall(c) == c.called /\ c.kind = "Action" /\ ~c.bcs.none

\* C1: Action(a, x, bcs).assemble() without a tensor and with a non-empty
\* collection of boundary conditions returns a function that equals x at every
\* constrained degree of freedom and the action of a on the zeroed x elsewhere.
C1_AssembleValues ==
    (BcCall(last) /\ last.bcs.list # <<>> /\ last.tensor = None /\ ~last.raised)
        => last.val = BcAction(last.a, last.xpre, last.bcs.list)

\* C1 witness: a returned result with a constrained degree of freedom and an
\* unconstrained one whose value the zeroing changed.
C1_Witness ==
    /\ BcCall(last) /\ Len(last.bcs.list) = 2 /\ last.tensor = None /\ ~last.raised
    /\ \E i \in Constrained(last.bcs.list) :
           last.val[i] # AssembledAction(last.a, last.xpre)[i]
    /\ \E j \in Dofs \ Constrained(last.bcs.list) :
           last.val[j] # AssembledAction(last.a, last.xpre)[j]

\* C2: with a caller-supplied tensor and boundary conditions present, the tensor
\* itself is returned and holds what assemble() without a tensor would return:
\* x's pre-call values at the constrained degrees of freedom, the action on the
\* zeroed copy elsewhere; whatever the tensor held, and also when the tensor is x.
C2_TensorSameAsFresh ==
    (BcCall(last) /\ last.bcs.list # <<>> /\ last.tensor # None /\ ~last.raised)
        => /\ last.ret = last.tensor
           /\ last.val = BcAction(last.a, last.xpre, last.bcs.list)

\* C3: a call without a tensor leaves every value of x as it was and returns an
\* object other than x; two such calls on the same Action return equal values.
C3_NoTensorLeavesX ==
    /\ (last.called /\ last.kind = "Action" /\ last.tensor = None)
           => /\ x = last.xpre
              /\ ~last.raised => last.ret # "x"
    /\ (/\ last.called /\ prev.called /\ ~last.raised /\ ~prev.raised
        /\ last.kind = "Action" /\ prev.kind = "Action"
        /\ last.tensor = None /\ prev.tensor = None
        /\ last.a = prev.a /\ last.bcs = prev.bcs)
           => last.val = prev.val

\* C3 witness: two returned calls without a tensor on the same Action with
\* boundary conditions, whose result differs from x.
C3_Witness ==
    /\ BcCall(last) /\ BcCall(prev) /\ ~last.raised /\ ~prev.raised
    /\ last.tensor = None /\ prev.tensor = None
    /\ last.a = prev.a /\ last.bcs = prev.bcs /\ last.bcs.list # <<>>
    /\ last.val # x

\* The collection in the opposite order.
Reversed(l) == [i \in 1..Len(l) |-> l[Len(l) + 1 - i]]

\* Two returned calls without a tensor on Actions of the same form, with the
\* same two boundary conditions in opposite orders.
OppositeOrders ==
    /\ BcCall(last) /\ BcCall(prev) /\ ~last.raised /\ ~prev.raised
    /\ last.tensor = None /\ prev.tensor = None
    /\ last.a = prev.a /\ last.xpre = prev.xpre
    /\ Len(last.bcs.list) = 2
    /\ last.bcs.list = Reversed(prev.bcs.list)

\* C4: the result does not depend on the order of two boundary conditions:
\* [bc1, bc2] and [bc2, bc1] give equal values at every degree of freedom, and
\* x's value at every node both constrain.
C4_OrderIndependent ==
    OppositeOrders
        => /\ last.val = prev.val
           /\ \A i \in last.bcs.list[1] \cap last.bcs.list[2] :
                  last.val[i] = last.xpre[i]

\* C4 witness: two different, intersecting boundary conditions assembled in
\* both orders.
C4_Witness ==
    /\ OppositeOrders
    /\ last.bcs.list[1] # last.bcs.list[2]
    /\ last.bcs.list[1] \cap last.bcs.list[2] # {}
    /\ Constrained(last.bcs.list) # Dofs

\* C5: when assembly fails in a call with boundary conditions and a tensor
\* other than x, the call raises, no restore pass runs, the tensor holds x's
\* values with the constrained degrees of freedom set to 0, and x is unchanged.
C5_FailureLeavesZeroed ==
    (BcCall(last) /\ last.tensor = "t" /\ last.raised)
        => /\ last.ret = None
           /\ last.tpost = ZeroedAt(last.xpre, last.bcs.list)
           /\ x = last.xpre

\* C5 witness: a failed call whose tensor is left neither as it was nor as the
\* result would have been.
C5_Witness ==
    /\ BcCall(last) /\ last.tensor = "t" /\ last.raised
    /\ last.bcs.list # <<>>
    /\ last.tpost # last.tpre
    /\ last.tpost # BcAction(last.a, last.xpre, last.bcs.list)
    /\ last.tpost # last.xpre

\* C10: action(form, coefficient, bcs) returns the native form exactly when bcs
\* is None and an Action otherwise, an empty collection included; an Action
\* with an empty collection assembles, with or without a tensor, to the values
\* of the native action of a on x, and leaves x alone when the tensor is not x.
C10_ActionFactory ==
    /\ made.by = "action" => (obj.kind = "Form" <=> made.bcs.none)
    /\ made.by = "action" /\ ~made.bcs.none => obj = ActionInit(obj.a, made.bcs)
    /\ (BcCall(last) /\ last.bcs.list = <<>> /\ ~last.raised)
           => /\ last.val = AssembledAction(last.a, last.xpre)
              /\ last.tensor # "x" => x = last.xpre

\* C10 witness: an Action built by action() with an empty collection, assembled
\* into a caller's tensor.
C10_Witness ==
    /\ made.by = "action" /\ obj.kind = "Action" /\ made.bcs.list = <<>>
    /\ BcCall(last) /\ last.bcs.list = <<>> /\ ~last.raised /\ last.tensor = "t"
    /\ last.val # last.xpre

====
